---- MODULE Spec2Model ----
(***************************************************************************)
(* Model of web_vrp_modelos.py: a Streamlit page that collects a routing   *)
(* instance (VRP, CVRP or VRPTW), builds the data model, hands it to the   *)
(* OR-Tools routing solver and prints the routes and their costs.          *)
(*                                                                         *)
(* Conventions.                                                            *)
(*  - Python lists are sequences; Python position i is sequence position   *)
(*    i + 1.  None and the empty list are both << >> (the code only tests  *)
(*    their truthiness).                                                   *)
(*  - Distances are whole numbers (floats with an integral value), so the  *)
(*    transit time_callback hands to the library is the matrix entry.      *)
(*    cost_per_km is a float held as the fraction <<numerator,             *)
(*    denominator>>, so int(distance * cost_per_km) is an exact            *)
(*    truncating division.                                                 *)
(*  - The routing library is modelled by what the calls of solve_vrp ask   *)
(*    of it: one index per node, one extra start index per vehicle after   *)
(*    the first, one end index per vehicle; every node is mandatory (the   *)
(*    code adds no disjunction); SolveWithParameters returns an assignment *)
(*    that satisfies every installed constraint, or None when there is     *)
(*    none.  Which of several feasible assignments is returned is left     *)
(*    open.  A cumulative variable of the returned assignment is held as   *)
(*    the range <<min, max>> of the values it can take.                    *)
(***************************************************************************)
EXTENDS Integers, Sequences, FiniteSets

VARIABLES model_type, distance_matrix, cost_per_km, demands, capacities,
          time_windows, data, solution, routes, total_cost, display, pc

vars == <<model_type, distance_matrix, cost_per_km, demands, capacities,
          time_windows, data, solution, routes, total_cost, display, pc>>

(***************************************************************************)
(* Bounds of the explored inputs.                                          *)
(***************************************************************************)
MaxNodes == 3
MaxVehicles == 2

(***************************************************************************)
(* Program constants.                                                      *)
(***************************************************************************)
depot == 0
TimeCapacity == 1440
(* Variant: slack and horizon passed in each other's place. *)
TimeSlackMax_swapped == TimeCapacity
TimeSlackMax == 30
DefaultCapacity == 15

None == [found |-> FALSE, next |-> << >>]
NoData == [distance_matrix |-> << >>, num_vehicles |-> 0, depot |-> 0,
           cost_per_km |-> <<0, 1>>, demands |-> << >>,
           vehicle_capacities |-> << >>, time_windows |-> << >>]

(***************************************************************************)
(* create_data_model.  A key the code leaves out of the dict is << >>.     *)
(***************************************************************************)
create_data_model(dm, dem, caps, tws, cpk) ==
    [distance_matrix |-> dm,
     num_vehicles |-> IF caps # << >> THEN Len(caps) ELSE 1,
     depot |-> depot,
     cost_per_km |-> cpk,
     demands |-> IF dem # << >> THEN dem ELSE << >>,
     vehicle_capacities |-> IF caps # << >> THEN caps ELSE << >>,
     time_windows |-> IF tws # << >> THEN tws ELSE << >>]

(***************************************************************************)
(* RoutingIndexManager(len(distance_matrix), num_vehicles, depot).         *)
(***************************************************************************)
NumNodes(d) == Len(d.distance_matrix)

Start(d, vehicle_id) ==
    IF vehicle_id = 0 THEN d.depot ELSE NumNodes(d) + vehicle_id - 1

End(d, vehicle_id) == NumNodes(d) + d.num_vehicles - 1 + vehicle_id

IsEnd(d, index) == index >= NumNodes(d) + d.num_vehicles - 1

IsStart(d, index) ==
    \E v \in 0..(d.num_vehicles - 1) : Start(d, v) = index

IndexToNode(d, index) == IF index < NumNodes(d) THEN index ELSE d.depot

NodeToIndex(d, node) == node

Vehicles(d) == 0..(d.num_vehicles - 1)

Customers(d) == 1..(NumNodes(d) - 1)

NonEndIndices(d) == 0..(NumNodes(d) + d.num_vehicles - 2)

(***************************************************************************)
(* The callbacks registered by solve_vrp.                                  *)
(***************************************************************************)
Trunc(num, den) == num \div den

(* Variant: the arc cost without the cost_per_km factor. *)
distance_callback_unscaled(d, from_index, to_index) ==
    d.distance_matrix[IndexToNode(d, from_index) + 1]
                     [IndexToNode(d, to_index) + 1]

distance_callback(d, from_index, to_index) ==
    Trunc(d.distance_matrix[IndexToNode(d, from_index) + 1]
                           [IndexToNode(d, to_index) + 1] * d.cost_per_km[1],
          d.cost_per_km[2])

demand_callback(d, from_index) == d.demands[IndexToNode(d, from_index) + 1]

(* Variant: the transit time scaled by cost_per_km like the arc cost. *)
time_callback_scaled(d, from_index, to_index) ==
    (d.distance_matrix[IndexToNode(d, from_index) + 1]
                      [IndexToNode(d, to_index) + 1] * d.cost_per_km[1])
        \div d.cost_per_km[2]

time_callback(d, from_index, to_index) ==
    d.distance_matrix[IndexToNode(d, from_index) + 1]
                     [IndexToNode(d, to_index) + 1]

(***************************************************************************)
(* routing.GetArcCostForVehicle: the arc cost evaluator of all vehicles is *)
(* distance_callback; the arc from a start straight to an end is the route *)
(* of an unused vehicle, which the library costs 0.                        *)
(***************************************************************************)
(* Variant: the evaluator applied to the arc of an unused vehicle too. *)
GetArcCostForVehicle_always(d, from_index, to_index, vehicle_id) ==
    Trunc(d.distance_matrix[IndexToNode(d, from_index) + 1]
                           [IndexToNode(d, to_index) + 1] * d.cost_per_km[1],
          d.cost_per_km[2])

GetArcCostForVehicle(d, from_index, to_index, vehicle_id) ==
    IF IsStart(d, from_index) /\ IsEnd(d, to_index)
    THEN 0
    ELSE distance_callback(d, from_index, to_index)

(***************************************************************************)
(* Candidate assignments of NextVar: every customer on exactly one         *)
(* vehicle's path, each path from the vehicle's start to its end.          *)
(***************************************************************************)
Perms(S) ==
    {p \in [1..Cardinality(S) -> S] :
        \A i, j \in 1..Cardinality(S) : p[i] = p[j] => i = j}

RouteOf(perm, veh, v) == SelectSeq(perm, LAMBDA c : veh[c] = v)

PositionIn(seq, x) == CHOOSE k \in 1..Len(seq) : seq[k] = x

NextVarOf(d, perm, veh) ==
    [index \in NonEndIndices(d) |->
        IF index \in Customers(d)
        THEN LET r == RouteOf(perm, veh, veh[index])
                 k == PositionIn(r, index)
             IN IF k = Len(r) THEN End(d, veh[index]) ELSE r[k + 1]
        ELSE LET v == CHOOSE w \in Vehicles(d) : Start(d, w) = index
                 r == RouteOf(perm, veh, v)
             IN IF r = << >> THEN End(d, v) ELSE r[1]]

Candidates(d) ==
    {NextVarOf(d, perm, veh) :
        perm \in Perms(Customers(d)), veh \in [Customers(d) -> Vehicles(d)]}

RECURSIVE PathFrom(_, _, _)
PathFrom(d, next, index) ==
    IF IsEnd(d, index)
    THEN <<index>>
    ELSE <<index>> \o PathFrom(d, next, next[index])

Path(d, next, vehicle_id) == PathFrom(d, next, Start(d, vehicle_id))

(***************************************************************************)
(* Capacity dimension: AddDimensionWithVehicleCapacity(demand, 0,          *)
(* vehicle_capacities, True, 'Capacity').                                  *)
(***************************************************************************)
(* Variant: every vehicle bounded by the first vehicle's capacity. *)
VehicleCapacity_first(d, vehicle_id) == d.vehicle_capacities[1]

VehicleCapacity(d, vehicle_id) == d.vehicle_capacities[vehicle_id + 1]

RECURSIVE CapacityCumul(_, _, _)
CapacityCumul(d, path, k) ==
    IF k = 1
    THEN 0
    ELSE CapacityCumul(d, path, k - 1) + demand_callback(d, path[k - 1])

CapacityFeasible(d, next, vehicle_id) ==
    LET path == Path(d, next, vehicle_id)
    IN \A k \in 1..Len(path) :
          /\ CapacityCumul(d, path, k) >= 0
          /\ CapacityCumul(d, path, k) <= VehicleCapacity(d, vehicle_id)

(***************************************************************************)
(* Time dimension: AddDimension(time, 30, 1440, False, 'Time'), then       *)
(* CumulVar(NodeToIndex(location)).SetRange(window) for every location.    *)
(* A range is <<min, max>>; it is empty when min > max.                    *)
(***************************************************************************)
EmptyRange == <<1, 0>>

IsEmptyRange(r) == r[1] > r[2]

Max2(a, b) == IF a >= b THEN a ELSE b

Min2(a, b) == IF a <= b THEN a ELSE b

Clip(r, s) ==
    IF IsEmptyRange(r) \/ IsEmptyRange(s) \/ Max2(r[1], s[1]) > Min2(r[2], s[2])
    THEN EmptyRange
    ELSE <<Max2(r[1], s[1]), Min2(r[2], s[2])>>

TimeFixStartCumulToZero == FALSE

(* Variant: the loop over the windows stops one location short. *)
TimeWindowedLocations_short(d, index) ==
    {location_idx \in 0..(Len(d.time_windows) - 2) : location_idx = index}

TimeWindowedLocations(d, index) ==
    {location_idx \in 0..(Len(d.time_windows) - 1) :
        NodeToIndex(d, location_idx) = index}

TimeDomain(d, index) ==
    LET locs == TimeWindowedLocations(d, index)
        whole == IF TimeFixStartCumulToZero /\ IsStart(d, index)
                 THEN <<0, 0>>
                 ELSE <<0, TimeCapacity>>
    IN IF locs = {}
       THEN whole
       ELSE Clip(whole, d.time_windows[(CHOOSE l \in locs : TRUE) + 1])

RECURSIVE TimeForward(_, _, _)
TimeForward(d, path, k) ==
    IF k = 1
    THEN TimeDomain(d, path[1])
    ELSE LET prev == TimeForward(d, path, k - 1)
             transit == time_callback(d, path[k - 1], path[k])
         IN IF IsEmptyRange(prev)
            THEN EmptyRange
            ELSE Clip(<<prev[1] + transit, prev[2] + transit + TimeSlackMax>>,
                      TimeDomain(d, path[k]))

RECURSIVE TimeCumul(_, _, _)
TimeCumul(d, path, k) ==
    IF k = Len(path)
    THEN TimeForward(d, path, k)
    ELSE LET succ == TimeCumul(d, path, k + 1)
             transit == time_callback(d, path[k], path[k + 1])
         IN IF IsEmptyRange(succ)
            THEN EmptyRange
            ELSE Clip(TimeForward(d, path, k),
                      <<succ[1] - transit - TimeSlackMax, succ[2] - transit>>)

TimeFeasible(d, next, vehicle_id) ==
    LET path == Path(d, next, vehicle_id)
    IN ~IsEmptyRange(TimeForward(d, path, Len(path)))

(***************************************************************************)
(* solve_vrp: the assignments that satisfy what was installed.             *)
(***************************************************************************)
Feasible(d, use_capacity, use_time_windows, next) ==
    \A v \in Vehicles(d) :
        /\ use_capacity => CapacityFeasible(d, next, v)
        /\ use_time_windows => TimeFeasible(d, next, v)

Solutions(d, use_capacity, use_time_windows) ==
    {next \in Candidates(d) : Feasible(d, use_capacity, use_time_windows, next)}

solve_vrp(d, use_capacity, use_time_windows) ==
    LET found == Solutions(d, use_capacity, use_time_windows)
    IN IF found = {}
       THEN {None}
       ELSE {[found |-> TRUE, next |-> next] : next \in found}

(***************************************************************************)
(* get_routes: the while loop of one vehicle, then the loop over vehicles. *)
(***************************************************************************)
(* Variant: the loop without the append that follows it. *)
RECURSIVE WalkRoute_open(_, _, _, _, _, _)
WalkRoute_open(d, sol, vehicle_id, index, route, route_cost) ==
    IF IsEnd(d, index)
    THEN <<route, route_cost>>
    ELSE WalkRoute_open(d, sol, vehicle_id, sol.next[index],
                        Append(route, IndexToNode(d, index)),
                        route_cost + GetArcCostForVehicle(d, index,
                                                          sol.next[index],
                                                          vehicle_id))

RECURSIVE WalkRoute(_, _, _, _, _, _)
WalkRoute(d, sol, vehicle_id, index, route, route_cost) ==
    IF IsEnd(d, index)
    THEN <<Append(route, IndexToNode(d, index)), route_cost>>
    ELSE WalkRoute(d, sol, vehicle_id, sol.next[index],
                   Append(route, IndexToNode(d, index)),
                   route_cost + GetArcCostForVehicle(d, index, sol.next[index],
                                                     vehicle_id))

RECURSIVE SumCosts(_, _)
SumCosts(rs, k) == IF k = 0 THEN 0 ELSE SumCosts(rs, k - 1) + rs[k][2]

get_routes(sol, d) ==
    LET rs == [i \in 1..d.num_vehicles |->
                  WalkRoute(d, sol, i - 1, Start(d, i - 1), << >>, 0)]
    IN <<rs, SumCosts(rs, Len(rs))>>

(***************************************************************************)
(* The inputs the page collects.                                           *)
(***************************************************************************)
CostValues == {<<0, 1>>, <<1, 2>>, <<1, 1>>, <<3, 2>>}

DistValues == {3, 10}

DiagValues == {0, 5}

WindowValues == {<<0, 5>>, <<40, 50>>, <<0, 1000>>}

CustomerWindowValues == {<<0, 5>>, <<40, 50>>}

WindowLists(n) ==
    {<<w0>> \o w : w0 \in WindowValues,
                   w \in [1..(n - 1) -> CustomerWindowValues]}

Matrix(n, diag, up, down) ==
    [i \in 1..n |-> [j \in 1..n |->
        IF i = j THEN diag ELSE IF i < j THEN up ELSE down]]

Matrices(n) ==
    {Matrix(n, diag, up, down) :
        diag \in DiagValues, up \in DistValues, down \in DistValues}

NodeCounts == 2..MaxNodes

VrpInputs ==
    {[model_type |-> "VRP", distance_matrix |-> m, cost_per_km |-> c,
      demands |-> << >>, capacities |-> << >>, time_windows |-> << >>] :
        m \in UNION {Matrices(n) : n \in NodeCounts}, c \in CostValues}

DemandValues == 1..2

CapacityValues == 1..3

DemandLists(n) ==
    {<<d0>> \o q : d0 \in 0..1, q \in [1..(n - 1) -> DemandValues]}

CapacityLists ==
    UNION {[1..v -> CapacityValues] : v \in 1..MaxVehicles}

CvrpInputs ==
    UNION {
        {[model_type |-> "CVRP", distance_matrix |-> Matrix(n, diag, 3, 10),
          cost_per_km |-> <<1, 2>>, demands |-> dem, capacities |-> caps,
          time_windows |-> << >>] :
            diag \in DiagValues, dem \in DemandLists(n), caps \in CapacityLists}
        : n \in NodeCounts}

VrptwInputs ==
    UNION {
        {[model_type |-> "VRPTW", distance_matrix |-> m, cost_per_km |-> c,
          demands |-> [i \in 1..n |-> 0],
          capacities |-> [v \in 1..nv |-> DefaultCapacity],
          time_windows |-> tws] :
            m \in {Matrix(n, 0, up, down) : up \in DistValues, down \in DistValues},
            c \in {<<0, 1>>, <<1, 1>>}, nv \in 1..MaxVehicles,
            tws \in WindowLists(n)}
        : n \in NodeCounts}

(* Scenario C of the specification: three nodes with tight windows. *)
ScenarioWindows == <<<<0, 1000>>, <<0, 50>>, <<900, 1000>>>>

ScenarioDistValues == {10, 60, 850}

OffDiagonal(n) == {p \in (1..n) \X (1..n) : p[1] # p[2]}

ScenarioMatrices ==
    {[i \in 1..3 |-> [j \in 1..3 |-> IF i = j THEN 0 ELSE f[<<i, j>>]]] :
        f \in [OffDiagonal(3) -> ScenarioDistValues]}

ScenarioInputs ==
    {[model_type |-> "VRPTW", distance_matrix |-> m, cost_per_km |-> <<1, 1>>,
      demands |-> <<0, 0, 0>>,
      capacities |-> [v \in 1..nv |-> DefaultCapacity],
      time_windows |-> ScenarioWindows] :
        m \in ScenarioMatrices, nv \in 1..MaxVehicles}

(* A row typed with one number too many: the matrix is not square. *)
LongRow(m, r) == [i \in 1..Len(m) |-> IF i = r THEN Append(m[i], 7) ELSE m[i]]

ShapeInputs ==
    {[model_type |-> "VRP", distance_matrix |-> LongRow(m, r),
      cost_per_km |-> <<1, 1>>, demands |-> << >>, capacities |-> << >>,
      time_windows |-> << >>] :
        m \in Matrices(2), r \in 1..2}

Inputs ==
    VrpInputs \cup CvrpInputs \cup VrptwInputs \cup ScenarioInputs
        \cup ShapeInputs

Init ==
    /\ \E inp \in Inputs :
          /\ model_type = inp.model_type
          /\ distance_matrix = inp.distance_matrix
          /\ cost_per_km = inp.cost_per_km
          /\ demands = inp.demands
          /\ capacities = inp.capacities
          /\ time_windows = inp.time_windows
    /\ data = NoData
    /\ solution = None
    /\ routes = << >>
    /\ total_cost = 0
    /\ display = "none"
    /\ pc = "input"

(***************************************************************************)
(* The "Resolver Ruteo" handler, one action per call it makes.             *)
(***************************************************************************)
UseCapacity == model_type \in {"CVRP", "VRPTW"}

UseTimeWindows == model_type = "VRPTW"

CreateDataModel ==
    /\ pc = "input"
    /\ data' = create_data_model(
                   distance_matrix,
                   IF model_type \in {"CVRP", "VRPTW"} THEN demands ELSE << >>,
                   IF model_type \in {"CVRP", "VRPTW"} THEN capacities ELSE << >>,
                   IF model_type = "VRPTW" THEN time_windows ELSE << >>,
                   cost_per_km)
    /\ pc' = "model"
    /\ UNCHANGED <<model_type, distance_matrix, cost_per_km, demands,
                   capacities, time_windows, solution, routes, total_cost,
                   display>>

SolveVrp ==
    /\ pc = "model"
    /\ solution' \in solve_vrp(data, UseCapacity, UseTimeWindows)
    /\ pc' = "solved"
    /\ UNCHANGED <<model_type, distance_matrix, cost_per_km, demands,
                   capacities, time_windows, data, routes, total_cost, display>>

ShowError ==
    /\ pc = "solved"
    /\ ~solution.found
    /\ display' = "error"
    /\ pc' = "done"
    /\ UNCHANGED <<model_type, distance_matrix, cost_per_km, demands,
                   capacities, time_windows, data, solution, routes, total_cost>>

GetRoutes ==
    /\ pc = "solved"
    /\ solution.found
    /\ routes' = get_routes(solution, data)[1]
    /\ total_cost' = get_routes(solution, data)[2]
    /\ pc' = "routes"
    /\ UNCHANGED <<model_type, distance_matrix, cost_per_km, demands,
                   capacities, time_windows, data, solution, display>>

ShowSuccess ==
    /\ pc = "routes"
    /\ display' = "success"
    /\ pc' = "done"
    /\ UNCHANGED <<model_type, distance_matrix, cost_per_km, demands,
                   capacities, time_windows, data, solution, routes, total_cost>>

Next == CreateDataModel \/ SolveVrp \/ ShowError \/ GetRoutes \/ ShowSuccess

Spec == Init /\ [][Next]_vars

(***************************************************************************)
(* Vocabulary of the properties, read off the page's inputs and outputs.   *)
(***************************************************************************)
N == Len(distance_matrix)

Reported == pc = "routes" \/ display = "success"

Solved == pc = "solved"

RouteNodes(i) == routes[i][1]

RouteCost(i) == routes[i][2]

Positions ==
    UNION {{<<i, k>> : k \in 1..Len(RouteNodes(i))} : i \in 1..Len(routes)}

Occurrences(node) ==
    Cardinality({p \in Positions : RouteNodes(p[1])[p[2]] = node})

Unused(v) == solution.next[Start(data, v)] = End(data, v)

(* C1: when the solver returns a solution, the routes get_routes produces
   partition the customers: every node 1..N-1 appears exactly once over
   all routes, and every route starts and ends with the depot node 0. *)
C1_RoutesPartitionCustomers ==
    Reported =>
        /\ \A c \in 1..(N - 1) : Occurrences(c) = 1
        /\ \A i \in 1..Len(routes) :
              /\ Len(RouteNodes(i)) >= 2
              /\ RouteNodes(i)[1] = 0
              /\ RouteNodes(i)[Len(RouteNodes(i))] = 0

C1_Witness ==
    /\ display = "success"
    /\ N = 3
    /\ Len(routes) = 2
    /\ Len(RouteNodes(1)) = 3
    /\ Len(RouteNodes(2)) = 3

RECURSIVE PrefixDemand(_, _)
PrefixDemand(route, k) ==
    IF k = 0
    THEN 0
    ELSE PrefixDemand(route, k - 1)
            + (IF route[k] = 0 THEN 0 ELSE demands[route[k] + 1])

(* C2: with the capacity dimension on, the demand accumulated along every
   prefix of a vehicle's route, starting from 0 at the depot, is at most
   that vehicle's capacity. *)
C2_PrefixDemandWithinCapacity ==
    (Reported /\ model_type \in {"CVRP", "VRPTW"}) =>
        \A i \in 1..Len(routes) : \A k \in 1..Len(RouteNodes(i)) :
            PrefixDemand(RouteNodes(i), k) <= capacities[i]

C2_Witness ==
    /\ display = "success"
    /\ model_type = "CVRP"
    /\ Len(routes) = 2
    /\ capacities[1] # capacities[2]
    /\ \A i \in 1..2 :
          /\ Len(RouteNodes(i)) = 3
          /\ PrefixDemand(RouteNodes(i), 3) = capacities[i]

PathOf(v) == Path(data, solution.next, v)

TimeRange(v, k) == TimeCumul(data, PathOf(v), k)

Window(node) == time_windows[node + 1]

Distance(from_node, to_node) == distance_matrix[from_node + 1][to_node + 1]

TimeWindowsOn == Solved /\ solution.found /\ model_type = "VRPTW"

(* C3: with time windows on, the arrival time at every stop of every
   route, the depot at the start and at the end of each route included,
   lies within that node's window.  Stated in its weakest reading: some
   arrival time the returned assignment allows lies in the window. *)
C3_ArrivalsWithinWindows ==
    TimeWindowsOn =>
        \A v \in 0..(Len(capacities) - 1) : \A k \in 1..Len(PathOf(v)) :
            LET r == TimeRange(v, k)
                w == Window(IndexToNode(data, PathOf(v)[k]))
            IN r[1] <= w[2] /\ r[2] >= w[1]

RoundHalfEven(num, den) ==
    LET q == num \div den
        r == num % den
    IN IF 2 * r < den THEN q
       ELSE IF 2 * r > den THEN q + 1
       ELSE IF q % 2 = 0 THEN q ELSE q + 1

RECURSIVE RoundedArcSum(_, _)
RoundedArcSum(route, k) ==
    IF k = 0
    THEN 0
    ELSE RoundedArcSum(route, k - 1)
            + RoundHalfEven(Distance(route[k], route[k + 1]) * cost_per_km[1],
                            cost_per_km[2])

RECURSIVE TruncatedArcSum(_, _)
TruncatedArcSum(route, k) ==
    IF k = 0
    THEN 0
    ELSE TruncatedArcSum(route, k - 1)
            + ((Distance(route[k], route[k + 1]) * cost_per_km[1])
                  \div cost_per_km[2])

RECURSIVE RouteCostSum(_)
RouteCostSum(k) == IF k = 0 THEN 0 ELSE RouteCostSum(k - 1) + RouteCost(k)

(* C4 as written: the total is the sum of the route costs, and a route
   cost is the sum over consecutive node pairs of the rounded product
   round(distance * cost_per_km). *)
C4_CostsAreRoundedSums ==
    Reported =>
        /\ total_cost = RouteCostSum(Len(routes))
        /\ \A i \in 1..Len(routes) :
              RouteCost(i) = RoundedArcSum(RouteNodes(i), Len(RouteNodes(i)) - 1)

(* C4 amended: the total is the sum of the route costs; the cost of a
   route that serves a customer is the sum over its consecutive node pairs
   of distance * cost_per_km truncated to an integer, and the cost of the
   route [depot, depot] of an unused vehicle is 0. *)
C4_CostsAreTruncatedSums ==
    Reported =>
        /\ total_cost = RouteCostSum(Len(routes))
        /\ \A i \in 1..Len(routes) :
              RouteCost(i) =
                  IF Len(RouteNodes(i)) = 2
                  THEN 0
                  ELSE TruncatedArcSum(RouteNodes(i), Len(RouteNodes(i)) - 1)

C4_Witness ==
    /\ display = "success"
    /\ cost_per_km = <<1, 2>>
    /\ Len(routes) = 2
    /\ RouteNodes(1) = <<0, 1, 2, 0>>
    /\ Distance(0, 1) = 3
    /\ Distance(0, 0) = 5
    /\ RouteCost(1) = 7
    /\ total_cost = 7

(* C5: a solve ends either in a complete solution in which every node is
   assigned and every capacity and time bound of the instance holds, or in
   None; routes are extracted and success is shown only after a solution,
   and on None only the error is shown. *)
C5_SuccessOnlyForValidRouting ==
    /\ display \in {"none", "error", "success"}
    /\ display = "error" => (~solution.found /\ routes = << >>)
    /\ Reported =>
          /\ solution.found
          /\ \A c \in 1..(N - 1) : Occurrences(c) = 1
          /\ model_type \in {"CVRP", "VRPTW"} =>
                \A i \in 1..Len(routes) :
                    PrefixDemand(RouteNodes(i), Len(RouteNodes(i)))
                        <= capacities[i]
          /\ model_type = "VRPTW" =>
                \A v \in 0..(Len(capacities) - 1) :
                    \A k \in 1..Len(PathOf(v)) :
                        /\ TimeRange(v, k)[1]
                              <= Window(IndexToNode(data, PathOf(v)[k]))[2]
                        /\ TimeRange(v, k)[2]
                              >= Window(IndexToNode(data, PathOf(v)[k]))[1]

ShapeInvalid ==
    \/ \E i \in 1..N : Len(distance_matrix[i]) # N
    \/ model_type \in {"CVRP", "VRPTW"}
          /\ (Len(demands) # N \/ capacities = << >>)
    \/ model_type = "VRPTW" /\ Len(time_windows) # N

(* C6: a distance matrix that is not square, a demands or time-windows
   list whose length is not N, or an empty capacities list in capacity
   mode stops the pipeline at the model builder: nothing is compiled or
   searched. *)
C6_InvalidShapeStopsPipeline == ShapeInvalid => pc = "input"

(* C7: get_routes returns one (route, cost) entry per vehicle, and the
   entry of a vehicle the solution gives no customer is the route
   [depot, depot] with cost 0. *)
C7_OneEntryPerVehicle ==
    Reported =>
        /\ Len(routes) =
              (IF model_type \in {"CVRP", "VRPTW"} THEN Len(capacities) ELSE 1)
        /\ \A i \in 1..Len(routes) :
              Unused(i - 1) => routes[i] = <<<<0, 0>>, 0>>

C7_Witness ==
    /\ display = "success"
    /\ Len(routes) = 2
    /\ Unused(1)
    /\ routes[2] = <<<<0, 0>>, 0>>
    /\ RouteCost(1) > 0
    /\ (Distance(0, 0) * cost_per_km[1]) \div cost_per_km[2] > 0

(* C8: with cost_per_km = 0 every reported route cost and the total are 0
   whatever the distances; and whether a solution is found does not
   depend on cost_per_km: the outcome of the solve agrees with the
   feasibility of the same model under every other cost factor. *)
C8_ZeroCostAndCostFreeFeasibility ==
    /\ (Reported /\ cost_per_km[1] = 0) =>
          /\ total_cost = 0
          /\ \A i \in 1..Len(routes) : RouteCost(i) = 0
    /\ Solved =>
          LET candidates == Candidates(data)
          IN \A c \in CostValues :
                solution.found <=>
                    \E next \in candidates :
                        Feasible([data EXCEPT !.cost_per_km = c],
                                 model_type \in {"CVRP", "VRPTW"},
                                 model_type = "VRPTW", next)

C8_Witness ==
    /\ display = "success"
    /\ model_type = "VRPTW"
    /\ cost_per_km = <<0, 1>>
    /\ N = 3
    /\ Distance(0, 1) = 10
    /\ total_cost = 0
    /\ time_windows[2] = <<40, 50>>

ScenarioC ==
    /\ model_type = "VRPTW"
    /\ N = 3
    /\ time_windows = <<<<0, 1000>>, <<0, 50>>, <<900, 1000>>>>

(* C9 as written: in the three-node instance with windows
   [[0,1000],[0,50],[900,1000]], whenever distance[0][2] exceeds 50 the
   solve returns None, whatever the other distances and the capacities. *)
C9_DirectLegOver50IsInfeasible ==
    (Solved /\ ScenarioC /\ Distance(0, 2) > 50) => ~solution.found

(* C9 amended: in that instance with a single vehicle, whenever
   distance[0][2] exceeds 50 and distance[1][2] is below 820 (node 2
   cannot be reached in its window after node 1 either, even with the
   longest wait of 30) the solve returns None; and in every solution that
   is returned, nodes 1 and 2 are reached inside their windows. *)
C9_SingleVehicleShortLegIsInfeasible ==
    (Solved /\ ScenarioC) =>
        /\ (Len(capacities) = 1 /\ Distance(0, 2) > 50 /\ Distance(1, 2) < 820)
              => ~solution.found
        /\ solution.found =>
              \A v \in 0..(Len(capacities) - 1) : \A k \in 1..Len(PathOf(v)) :
                  LET node == IndexToNode(data, PathOf(v)[k])
                  IN node # 0 =>
                        /\ Window(node)[1] <= TimeRange(v, k)[1]
                        /\ TimeRange(v, k)[2] <= Window(node)[2]

C9_Witness ==
    /\ ScenarioC
    /\ Len(capacities) = 1
    /\ Distance(0, 2) = 60
    /\ Distance(1, 2) = 60
    /\ Distance(0, 1) = 10
    /\ Solved
    /\ ~solution.found

WaitFits(t, transit, u) == u - t - transit >= 0 /\ u - t - transit <= 30

(* C10: in every solution found with time windows on, the Time value at a
   stop's successor is the Time value at the stop plus the distance
   between them plus a wait between 0 and 30, every Time value is between
   0 and 1440, and the start of a route is not held at 0; so an instance
   whose window can only be met by waiting longer than 30, or whose route
   can only end after 1440, is reported infeasible. *)
C10_TimeDimensionBounds ==
    /\ TimeWindowsOn =>
          \A v \in 0..(Len(capacities) - 1) : \A k \in 1..Len(PathOf(v)) :
              LET r == TimeRange(v, k)
              IN /\ 0 <= r[1] /\ r[1] <= r[2] /\ r[2] <= 1440
                 /\ k < Len(PathOf(v)) =>
                       LET s == TimeRange(v, k + 1)
                           transit ==
                               Distance(IndexToNode(data, PathOf(v)[k]),
                                        IndexToNode(data, PathOf(v)[k + 1]))
                       IN /\ \A u \in {s[1], s[2]} :
                                \E t \in Max2(r[1], u - transit - 30)
                                            ..Min2(r[2], u - transit) :
                                    WaitFits(t, transit, u)
                          /\ \A t \in {r[1], r[2]} :
                                \E u \in Max2(s[1], t + transit)
                                            ..Min2(s[2], t + transit + 30) :
                                    WaitFits(t, transit, u)
    /\ (Solved /\ model_type = "VRPTW" /\ Len(capacities) = 1 /\ N = 2
            /\ Window(1)[1] > Window(0)[2] + Distance(0, 1) + 30)
          => ~solution.found
    /\ (Solved /\ ScenarioC /\ Len(capacities) = 1
            /\ Window(2)[1] + Distance(2, 0) > 1440)
          => ~solution.found

C10_Witness ==
    /\ Solved
    /\ solution.found
    /\ model_type = "VRPTW"
    /\ Len(capacities) = 2
    /\ ~Unused(1)
    /\ TimeRange(1, 1)[1] > 0
    /\ TimeRange(1, 2) = <<40, 50>>
    /\ TimeRange(0, 1)[2] <= 5

====
